---- MODULE Spec2Model ----
(***************************************************************************)
(* Julia -> WebAssembly text generator (libjulia/backends/webassembly/     *)
(* WebAssembly.cpp).  The Generator visitor is modelled as a stack machine: *)
(* one frame per active handler call, one action per handler, each action   *)
(* running the handler's code up to its next nested visit or its return.   *)
(* Text is a sequence of tokens: "(i64.const 5)" is <<"(","i64",".const",   *)
(* "5",")">>.                                                              *)
(***************************************************************************)
EXTENDS Integers, Sequences, FiniteSets, TLC

VARIABLES input, output, stack, status, result, log

vars == <<input, output, stack, status, result, log>>

(***************************************************************************)
(* Bounds of the explored inputs.                                          *)
(***************************************************************************)
MaxArgs == 3        \* arguments of a FunctionCall: 0..MaxArgs
MaxCases == 3       \* cases of a Switch: 0..MaxCases
MaxPrefix == 1      \* valid statements preceding the statement under study

(***************************************************************************)
(* AST (libsolidity/inlineasm/AsmData.h, as used by the generator).        *)
(* An optional pointer is a sequence of length 0 (null) or 1.              *)
(***************************************************************************)
Literal(k, v, t) == [kind |-> "Literal", lkind |-> k, value |-> v, type |-> t]
Identifier(n) == [kind |-> "Identifier", name |-> n]
TypedName(n, t) == [name |-> n, type |-> t]
VariableDeclaration(vs, e) == [kind |-> "VariableDeclaration", variables |-> vs, value |-> e]
Assignment(n, e) == [kind |-> "Assignment", variableName |-> n, value |-> e]
Block(ss) == [kind |-> "Block", statements |-> ss]
FunctionDefinition(n, as, rs, b) ==
    [kind |-> "FunctionDefinition", name |-> n, arguments |-> as, returns |-> rs, body |-> b]
FunctionCall(n, as) == [kind |-> "FunctionCall", functionName |-> n, arguments |-> as]
Case(v, b) == [value |-> v, body |-> b]
Switch(e, cs) == [kind |-> "Switch", expression |-> e, cases |-> cs]
Instruction == [kind |-> "Instruction"]
FunctionalInstruction == [kind |-> "FunctionalInstruction"]
StackAssignment == [kind |-> "StackAssignment"]
Label == [kind |-> "Label"]

(***************************************************************************)
(* IndentedWriter: lines of text, each with its indentation; the last line *)
(* is the current one.  low is the lowest indentation the writer was ever  *)
(* asked to take (a record of its history, read by no operation).          *)
(***************************************************************************)
EmptyWriter == [lines |-> <<[indentation |-> 0, contents |-> <<>>]>>, low |-> 0]

Depth(w) == w.lines[Len(w.lines)].indentation

newLine(w) ==
    IF w.lines[Len(w.lines)].contents # <<>>
    THEN [w EXCEPT !.lines = Append(@, [indentation |-> Depth(w), contents |-> <<>>])]
    ELSE w

add(w, str) == [w EXCEPT !.lines[Len(w.lines)].contents = @ \o str]

addLine(w, line) == newLine(add(newLine(w), line))

indent(w) ==
    LET v == newLine(w)
    IN  [v EXCEPT !.lines[Len(v.lines)].indentation = @ + 1]

unindent(w) ==
    LET v == newLine(w)
        d == Depth(v) - 1
    IN  [v EXCEPT !.lines[Len(v.lines)].indentation = d,
                  !.low = IF d < @ THEN d ELSE @]

RECURSIVE Spaces(_)
Spaces(n) == IF n <= 0 THEN <<>> ELSE <<"   ">> \o Spaces(n - 1)

RECURSIVE FormatLines(_)
FormatLines(ls) ==
    IF ls = <<>> THEN <<>>
    ELSE Spaces(Head(ls).indentation) \o Head(ls).contents \o <<"\n">>
         \o FormatLines(Tail(ls))

format(w) == FormatLines(w.lines)

\* The text appended so far, without line structure.
RECURSIVE ContentOf(_)
ContentOf(ls) == IF ls = <<>> THEN <<>> ELSE Head(ls).contents \o ContentOf(Tail(ls))

RECURSIVE LenOf(_)
LenOf(ls) == IF ls = <<>> THEN 0 ELSE Len(Head(ls).contents) + LenOf(Tail(ls))

Content(w) == ContentOf(w.lines)
ContentLen(w) == LenOf(w.lines)

(***************************************************************************)
(* convertType (lines 205-211): the set of supported types and the result. *)
(***************************************************************************)
supportedTypes == {"bool", "u8", "s8", "u32", "s32", "u64", "s64"}

\* convertTypeOk without the second solAssert.
convertTypeNonEmpty(type) == type # ""

\* TRUE iff both solAsserts of convertType pass.
convertTypeOk(type) == type # "" /\ type \in supportedTypes

convertType(type) == "i64"

(***************************************************************************)
(* The call stack of the visitor.  A frame is one active call: h names the *)
(* handler, node its argument, pc the place to resume at, i the position   *)
(* of visitStatements' iteration; defaultcase, cases and returnName are    *)
(* the locals of the Switch and FunctionDefinition handlers.  start and    *)
(* depth0 remember the writer's length and indentation at entry; they are  *)
(* read only when the call's span is appended to log.                      *)
(***************************************************************************)
Frame(h, node, w) ==
    [h |-> h, node |-> node, pc |-> "entry", i |-> 0,
     defaultcase |-> 0, cases |-> <<>>, returnName |-> "",
     start |-> ContentLen(w), depth0 |-> Depth(w)]

Top == stack[Len(stack)]

Running(h) == status = "running" /\ stack # <<>> /\ Top.h = h

\* The handler goes on in frame f.
Continue(w, f) ==
    /\ output' = w
    /\ stack' = [stack EXCEPT ![Len(stack)] = f]
    /\ UNCHANGED <<input, status, result, log>>

\* boost::apply_visitor(*this, child): frame f is suspended, the handler of
\* child's kind is entered.
Visit(w, f, child) ==
    /\ output' = w
    /\ stack' = Append([stack EXCEPT ![Len(stack)] = f], Frame(child.kind, child, w))
    /\ UNCHANGED <<input, status, result, log>>

\* The handler returns normally.
Return(w) ==
    /\ output' = w
    /\ stack' = SubSeq(stack, 1, Len(stack) - 1)
    /\ log' = Append(log, [node |-> Top.node, from |-> Top.start, to |-> ContentLen(w),
                           din |-> Top.depth0, dout |-> Depth(w)])
    /\ UNCHANGED <<input, status, result>>

\* solAssert fails: the exception unwinds every call; assemble returns nothing.
Throw(w) ==
    /\ output' = w
    /\ stack' = <<>>
    /\ status' = "failed"
    /\ UNCHANGED <<input, result, log>>

\* An out-of-bounds read faults: the process dies; nothing is returned.
Crash(w) ==
    /\ output' = w
    /\ stack' = <<>>
    /\ status' = "crashed"
    /\ UNCHANGED <<input, result, log>>

(***************************************************************************)
(* julia::WebAssembly::assemble and the Generator constructor.             *)
(***************************************************************************)
assemble ==
    /\ status = "init"
    /\ status' = "running"
    /\ stack' = <<Frame("Generator", input, output)>>
    /\ UNCHANGED <<input, output, result, log>>

OpenModule(w) == indent(addLine(w, <<"(", "module">>))

CloseModule(w) == addLine(unindent(w), <<")">>)

Generator ==
    /\ Running("Generator")
    /\ \/ /\ Top.pc = "entry"
          /\ Continue(OpenModule(output), [Top EXCEPT !.pc = "visitStatements"])
       \/ /\ Top.pc = "visited"
          /\ output' = CloseModule(output)
          /\ stack' = <<>>
          /\ status' = "constructed"
          /\ UNCHANGED <<input, result, log>>

assembly ==
    /\ status = "constructed"
    /\ result' = <<format(output)>>
    /\ status' = "done"
    /\ UNCHANGED <<input, output, stack, log>>

(***************************************************************************)
(* visitStatements: for_each over the statements of the block at hand.     *)
(***************************************************************************)
StatementsOf(f) ==
    IF f.h = "FunctionDefinition" THEN f.node.body.statements ELSE f.node.statements

visitStatements ==
    /\ status = "running" /\ stack # <<>> /\ Top.pc = "visitStatements"
    /\ IF Top.i < Len(StatementsOf(Top))
       THEN Visit(output, [Top EXCEPT !.i = @ + 1], StatementsOf(Top)[Top.i + 1])
       ELSE Continue(output, [Top EXCEPT !.pc = "visited"])

(***************************************************************************)
(* The unsupported node kinds.                                             *)
(***************************************************************************)
VisitInstruction == Running("Instruction") /\ Throw(output)

VisitFunctionalInstruction == Running("FunctionalInstruction") /\ Throw(output)

VisitStackAssignment == Running("StackAssignment") /\ Throw(output)

VisitLabel == Running("Label") /\ Throw(output)

(***************************************************************************)
(* Literal and Identifier.                                                 *)
(***************************************************************************)
\* BooleanOperand with the two operands exchanged.
BooleanOperandInverted(value) == IF value = "true" THEN "0" ELSE "1"

BooleanOperand(value) == IF value = "true" THEN "1" ELSE "0"

ConstText(type, operand) == <<"(", convertType(type), ".const", operand, ")">>

VisitLiteral ==
    /\ Running("Literal")
    /\ LET l == Top.node
       IN  IF l.lkind = "Number"
           THEN IF convertTypeOk(l.type)
                THEN Return(add(output, ConstText(l.type, l.value)))
                ELSE Throw(output)
           ELSE IF l.lkind = "Boolean"
           THEN IF convertTypeOk(l.type)
                THEN Return(add(output, ConstText(l.type, BooleanOperand(l.value))))
                ELSE Throw(output)
           ELSE Throw(output)

VisitIdentifier ==
    /\ Running("Identifier")
    /\ Return(add(output, <<"(", "get_local", "$", Top.node.name, ")">>))

(***************************************************************************)
(* VariableDeclaration and Assignment.                                     *)
(***************************************************************************)
\* CloseSetLocal without the closing parenthesis.
CloseSetLocalUnclosed(w) == newLine(unindent(w))

CloseSetLocal(w) == newLine(add(unindent(w), <<")">>))

VisitVariableDeclaration ==
    /\ Running("VariableDeclaration")
    /\ LET d == Top.node
       IN  \/ /\ Top.pc = "entry"
              /\ IF Len(d.variables) # 1 THEN Throw(output)
                 ELSE IF ~convertTypeOk(d.variables[1].type) THEN Throw(output)
                 ELSE Visit(indent(addLine(addLine(output,
                                <<"(", "local", "$", d.variables[1].name,
                                  convertType(d.variables[1].type), ")">>),
                                <<"(", "set_local", "$", d.variables[1].name>>)),
                            [Top EXCEPT !.pc = "value"], d.value)
           \/ /\ Top.pc = "value"
              /\ Return(CloseSetLocal(output))

VisitAssignment ==
    /\ Running("Assignment")
    /\ \/ /\ Top.pc = "entry"
          /\ Visit(indent(addLine(output, <<"(", "set_local", "$", Top.node.variableName>>)),
                   [Top EXCEPT !.pc = "value"], Top.node.value)
       \/ /\ Top.pc = "value"
          /\ Return(CloseSetLocal(output))

(***************************************************************************)
(* FunctionDefinition.  The two loops run to their end or to the first     *)
(* failing convertType; what was appended before a failure stays appended. *)
(***************************************************************************)
RECURSIVE EmitParams(_, _)
EmitParams(w, arguments) ==
    IF arguments = <<>> THEN [w |-> w, ok |-> TRUE]
    ELSE IF ~convertTypeOk(Head(arguments).type) THEN [w |-> w, ok |-> FALSE]
    ELSE EmitParams(addLine(w, <<"(", "param", "$", Head(arguments).name,
                                 convertType(Head(arguments).type), ")">>),
                    Tail(arguments))

RECURSIVE EmitReturns(_, _, _)
EmitReturns(w, returns, returnName) ==
    IF returns = <<>> THEN [w |-> w, ok |-> TRUE, returnName |-> returnName]
    ELSE IF ~convertTypeOk(Head(returns).type)
    THEN [w |-> w, ok |-> FALSE, returnName |-> Head(returns).name]
    ELSE EmitReturns(addLine(addLine(w, <<"(", "result", convertType(Head(returns).type), ")">>),
                             <<"(", "local", "$", Head(returns).name,
                               convertType(Head(returns).type), ")">>),
                     Tail(returns), Head(returns).name)

\* Lines 114-129: everything before the body.
FunctionHeader(w, f) ==
    LET opened == indent(addLine(newLine(w), <<"(", "func", "$", f.name>>))
        ps == EmitParams(opened, f.arguments)
    IN  IF ~ps.ok THEN [w |-> ps.w, ok |-> FALSE, returnName |-> ""]
        ELSE IF ~(Len(f.returns) <= 1) THEN [w |-> ps.w, ok |-> FALSE, returnName |-> ""]
        ELSE LET rs == EmitReturns(ps.w, f.returns, "")
             IN  [w |-> newLine(newLine(rs.w)), ok |-> rs.ok, returnName |-> rs.returnName]

\* FunctionTrailer without the test of returnName.
FunctionTrailerAlwaysReturns(w, returnName) ==
    LET v == newLine(newLine(w))
        r == addLine(v, <<"(", "return", "$", returnName, ")">>)
    IN  newLine(addLine(unindent(r), <<")">>))

\* Lines 131-137: everything after the body.
FunctionTrailer(w, returnName) ==
    LET v == newLine(newLine(w))
        r == IF returnName # "" THEN addLine(v, <<"(", "return", "$", returnName, ")">>) ELSE v
    IN  newLine(addLine(unindent(r), <<")">>))

VisitFunctionDefinition ==
    /\ Running("FunctionDefinition")
    /\ \/ /\ Top.pc = "entry"
          /\ LET hd == FunctionHeader(output, Top.node)
             IN  IF hd.ok
                 THEN Continue(hd.w, [Top EXCEPT !.pc = "visitStatements",
                                                 !.returnName = hd.returnName])
                 ELSE Throw(hd.w)
       \/ /\ Top.pc = "visited"
          /\ Return(FunctionTrailer(output, Top.returnName))

(***************************************************************************)
(* FunctionCall and resolveBuiltinFunction.                                *)
(***************************************************************************)
\* The instruction of a builtin name, "" for any other name (lines 216-263).
NativeInstruction(name) ==
    IF name = "add64" THEN "i64.add"
    ELSE IF name = "sub64" THEN "i64.sub"
    ELSE IF name = "mul64" THEN "i64.mul"
    ELSE IF name = "gt64" THEN "i64.gt_u"
    ELSE ""

\* BuiltinArity that lets surplus arguments through.
BuiltinArityAtLeast(arguments) == Len(arguments) >= 2

\* solAssert(_funCall.arguments.size() == 2, "") of each branch.
BuiltinArity(arguments) == Len(arguments) = 2

\* FirstOperand taking the wrong argument.
FirstOperandSwapped(arguments) == arguments[2]

\* The argument lowered first and the one lowered second.
FirstOperand(arguments) == arguments[1]
SecondOperand(arguments) == arguments[2]

resolveBuiltinFunction ==
    /\ Running("FunctionCall")
    /\ NativeInstruction(Top.node.functionName) # ""
    /\ LET c == Top.node
       IN  \/ /\ Top.pc = "entry"
              /\ LET w == indent(add(output, <<"(", NativeInstruction(c.functionName)>>))
                 IN  IF ~BuiltinArity(c.arguments) THEN Throw(w)
                     ELSE Visit(w, [Top EXCEPT !.pc = "first"], FirstOperand(c.arguments))
           \/ /\ Top.pc = "first"
              /\ Visit(newLine(output), [Top EXCEPT !.pc = "second"], SecondOperand(c.arguments))
           \/ /\ Top.pc = "second"
              /\ Return(add(unindent(output), <<")">>))

\* Lines 144-153, reached when resolveBuiltinFunction returned false.
CallOpening(w, name) == indent(addLine(w, <<"(", "call", "$", name>>))

VisitFunctionCall ==
    /\ Running("FunctionCall")
    /\ NativeInstruction(Top.node.functionName) = ""
    /\ LET c == Top.node
           \* the writer at the head of the loop
           w == IF Top.pc = "entry" THEN CallOpening(output, c.functionName)
                ELSE newLine(output)
       IN  /\ Top.pc \in {"entry", "arguments"}
           /\ IF Top.i < Len(c.arguments)
              THEN Visit(add(w, <<" ">>), [Top EXCEPT !.pc = "arguments", !.i = @ + 1],
                         c.arguments[Top.i + 1])
              ELSE Return(addLine(unindent(w), <<")">>))

(***************************************************************************)
(* Switch.  cases[0] and cases[1] are read whatever the size of the        *)
(* vector.  A read past its end is undefined: it faults, or it yields what *)
(* the memory holds, taken here to be a Case left behind by earlier use    *)
(* (StaleCases).  The frame keeps what was read at both places.            *)
(***************************************************************************)
StaleCases ==
    { Case(<<>>, Block(<<>>)),
      Case(<<Literal("Number", "9", "u64")>>, Block(<<>>)) }

\* size_t arithmetic of line 165; TLC's integers stand in for 64 bits.
SizeTModulus == 1073741824
LastIndex(size) == (size - 1) % SizeTModulus

\* Line 164.
DefaultCaseOf(cases) == IF cases[1].value # <<>> THEN 0 ELSE 1

\* Lines 172 and 177: cases[!!defaultcase]; line 184: cases[defaultcase].
\* (0-based, as in the source; the frame's cases are 1-based.)
\* Not is C's ! on an unsigned.
Not(x) == IF x = 0 THEN 1 ELSE 0
ComparedCase(defaultcase) == Not(Not(defaultcase))
ThenCase(defaultcase) == Not(Not(defaultcase))
ElseCase(defaultcase) == defaultcase

CloseBranch(w) == addLine(unindent(w), <<")">>)

VisitSwitch ==
    /\ Running("Switch")
    /\ LET sw == Top.node
           size == Len(sw.cases)
       IN  \/ /\ Top.pc = "entry"
              /\ IF ~(size <= 2) THEN Throw(output)
                 ELSE \E s0 \in StaleCases, s1 \in StaleCases, fault \in BOOLEAN :
                      LET c0 == IF size >= 1 THEN sw.cases[1] ELSE s0
                          c1 == IF size >= 2 THEN sw.cases[2] ELSE s1
                          \* cases[0] is always read, cases[1] when cases[0].value is null
                          outOfBounds == size < 1 \/ (c0.value = <<>> /\ size < 2)
                          cases == <<c0, c1>>
                          defaultcase == DefaultCaseOf(cases)
                      IN  IF outOfBounds /\ fault THEN Crash(output)
                          ELSE IF ~(c0.value # <<>> \/ c1.value # <<>>) THEN Throw(output)
                          ELSE IF ~(defaultcase <= LastIndex(size)) THEN Throw(output)
                          ELSE Visit(add(indent(addLine(output,
                                            <<"(", "if", "(", "result", "i64", ")">>)),
                                         <<"(", "i64.eq">>),
                                     [Top EXCEPT !.pc = "expression",
                                                 !.defaultcase = defaultcase,
                                                 !.cases = cases],
                                     sw.expression)
           \/ /\ Top.pc = "expression"
              /\ Visit(add(output, <<" ">>), [Top EXCEPT !.pc = "value"],
                       Top.cases[ComparedCase(Top.defaultcase) + 1].value[1])
           \/ /\ Top.pc = "value"
              /\ Visit(indent(add(newLine(add(output, <<")">>)), <<"(", "then">>)),
                       [Top EXCEPT !.pc = "then"],
                       Top.cases[ThenCase(Top.defaultcase) + 1].body)
           \/ /\ Top.pc = "then"
              /\ IF size = 2
                 THEN Visit(indent(add(CloseBranch(output), <<"(", "else">>)),
                            [Top EXCEPT !.pc = "else"],
                            Top.cases[ElseCase(Top.defaultcase) + 1].body)
                 ELSE Return(CloseBranch(CloseBranch(output)))
           \/ /\ Top.pc = "else"
              /\ Return(CloseBranch(CloseBranch(output)))

(***************************************************************************)
(* Block.                                                                  *)
(***************************************************************************)
OpenBlock(w) == indent(add(w, <<"(", "block">>))

\* CloseBlock without its unindent.
CloseBlockNoUnindent(w) == add(w, <<")">>)

CloseBlock(w) == add(unindent(w), <<")">>)

VisitBlock ==
    /\ Running("Block")
    /\ \/ /\ Top.pc = "entry"
          /\ Continue(OpenBlock(output), [Top EXCEPT !.pc = "visitStatements"])
       \/ /\ Top.pc = "visited"
          /\ Return(CloseBlock(output))

(***************************************************************************)
(* The inputs explored: a root block holding up to MaxPrefix valid         *)
(* statements followed by one statement under study.                       *)
(***************************************************************************)
SeqsUpTo(S, n) == UNION { [1..k -> S] : k \in 0..n }

Five == Literal("Number", "5", "u64")
IdA == Identifier("a")

TypeNames == supportedTypes \cup {"", "u256", "i64"}

Literals ==
    { Literal("Number", "7", t) : t \in TypeNames }
    \cup { Literal("Boolean", v, t) : v \in {"true", "false"}, t \in {"bool", "", "u256"} }
    \cup { Literal("String", "abc", "u64"), Literal("Number", "0x1f", "u64"), Five }

Unsupported == { Instruction, FunctionalInstruction, StackAssignment, Label }

Declarations ==
    { VariableDeclaration(<<TypedName("x", t)>>, Five) : t \in TypeNames }
    \cup { VariableDeclaration(vs, Five) :
             vs \in { <<>>, <<TypedName("x", "u64"), TypedName("y", "u64")>> } }

CalleeNames == {"add64", "sub64", "mul64", "gt64", "f", "add"}

Calls == { FunctionCall(n, as) : n \in CalleeNames, as \in SeqsUpTo({IdA, Five}, MaxArgs) }

\* Three case bodies that lower to three different texts.
BodyDefault == Block(<<Identifier("d")>>)
BodyValue == Block(<<Identifier("v")>>)
BodyOther == Block(<<>>)

CasePool ==
    { Case(<<>>, BodyDefault),
      Case(<<Five>>, BodyValue),
      Case(<<Literal("Boolean", "true", "bool")>>, BodyOther) }

Switches == { Switch(IdA, cs) : cs \in SeqsUpTo(CasePool, MaxCases) }

SwitchInBody == Switch(IdA, <<Case(<<Five>>, BodyValue), Case(<<>>, BodyDefault)>>)

FunctionBodies ==
    { Block(<<>>),
      Block(<<Assignment("r", FunctionCall("add64", <<IdA, Five>>))>>),
      Block(<<SwitchInBody>>),
      Block(<<VariableDeclaration(<<TypedName("t", "u64")>>, Five)>>),
      Block(<<FunctionDefinition("g", <<>>, <<TypedName("s", "u64")>>, Block(<<>>))>>) }

ParameterLists ==
    { <<>>,
      <<TypedName("p", "u64")>>,
      <<TypedName("p", "u64"), TypedName("q", "bool")>>,
      <<TypedName("p", "u256")>>,
      <<TypedName("p", "u64"), TypedName("q", "")>> }

ReturnLists ==
    { <<>>,
      <<TypedName("r", "u64")>>,
      <<TypedName("r", "u256")>>,
      <<TypedName("r", "u64"), TypedName("s", "u64")>> }

Functions ==
    { FunctionDefinition("f", ps, rs, b) :
        ps \in ParameterLists, rs \in ReturnLists, b \in FunctionBodies }

Plain ==
    Literals \cup Unsupported \cup Declarations \cup Calls \cup Switches \cup Functions
    \cup { IdA, Assignment("x", Five), Block(<<Five>>), Block(<<>>) }

\* Nodes placed at every kind of position of the tree.
Probes ==
    Unsupported
    \cup { Literal("String", "abc", "u64"), Literal("Number", "7", "u256"), Five,
           FunctionCall("add64", <<IdA>>),
           VariableDeclaration(<<TypedName("x", "u64"), TypedName("y", "u64")>>, Five) }

Placed(n) ==
    { FunctionDefinition("f", <<>>, <<>>, Block(<<n>>)),
      FunctionCall("f", <<IdA, n>>),
      FunctionCall("add64", <<n, IdA>>),
      VariableDeclaration(<<TypedName("x", "u64")>>, n),
      Assignment("x", n),
      Block(<<Block(<<n>>)>>),
      Switch(n, <<Case(<<Five>>, BodyValue), Case(<<>>, BodyDefault)>>),
      Switch(IdA, <<Case(<<Five>>, Block(<<n>>)), Case(<<>>, BodyDefault)>>),
      Switch(IdA, <<Case(<<>>, BodyDefault), Case(<<Five>>, Block(<<n>>))>>),
      Switch(IdA, <<Case(<<Five>>, BodyValue), Case(<<>>, Block(<<n>>))>>),
      Switch(IdA, <<Case(<<>>, Block(<<n>>)), Case(<<Five>>, BodyValue)>>) }

Studied == Plain \cup UNION { Placed(n) : n \in Probes }

PrefixStatement == VariableDeclaration(<<TypedName("z", "u64")>>, Five)

Programs ==
    { Block(pre \o <<n>>) : pre \in SeqsUpTo({PrefixStatement}, MaxPrefix), n \in Studied }
    \cup { Block(<<>>) }

(***************************************************************************)
(* The machine.                                                            *)
(***************************************************************************)
Init ==
    /\ input \in Programs
    /\ output = EmptyWriter
    /\ stack = <<>>
    /\ status = "init"
    /\ result = <<>>
    /\ log = <<>>

Next ==
    \/ assemble
    \/ Generator
    \/ assembly
    \/ visitStatements
    \/ VisitInstruction
    \/ VisitFunctionalInstruction
    \/ VisitStackAssignment
    \/ VisitLabel
    \/ VisitLiteral
    \/ VisitIdentifier
    \/ VisitVariableDeclaration
    \/ VisitAssignment
    \/ VisitFunctionDefinition
    \/ VisitFunctionCall
    \/ resolveBuiltinFunction
    \/ VisitSwitch
    \/ VisitBlock

Spec == Init /\ [][Next]_vars

(***************************************************************************)
(* Reading the log: log[k] says that the handler of log[k].node ran to its *)
(* end and appended tokens from+1 .. to of the text.                       *)
(***************************************************************************)
Text == Content(output)

Returned == { log[k] : k \in DOMAIN log }

\* Tokens a+1 .. a+Len(toks) of the text are toks.
TextAt(a, toks) == a + Len(toks) <= Len(Text) /\ SubSeq(Text, a + 1, a + Len(toks)) = toks

\* The nodes of ns were lowered one after the other, from offset a to offset b.
RECURSIVE LoweredInOrder(_, _, _)
LoweredInOrder(ns, a, b) ==
    IF ns = <<>> THEN a = b
    ELSE \E e \in Returned :
            /\ e.node = Head(ns)
            /\ e.from = a
            /\ LoweredInOrder(Tail(ns), e.to, b)

\* The arguments of a call: each preceded by a blank.
RECURSIVE ArgumentsInOrder(_, _, _)
ArgumentsInOrder(ns, a, b) ==
    IF ns = <<>> THEN a = b
    ELSE /\ TextAt(a, <<" ">>)
         /\ \E e \in Returned :
               /\ e.node = Head(ns)
               /\ e.from = a + 1
               /\ ArgumentsInOrder(Tail(ns), e.to, b)

(***************************************************************************)
(* C1  A Switch of two cases, one with a value and one default, in either  *)
(* order, lowers to (if (result i64) (i64.eq <scrutinee> <value>) (then    *)
(* <body of the value case>) (else <body of the default case>)).           *)
(***************************************************************************)
HasDefault(c) == c.value = <<>>

OneDefaultOneValue(n) ==
    /\ n.kind = "Switch"
    /\ Len(n.cases) = 2
    /\ HasDefault(n.cases[1]) # HasDefault(n.cases[2])

ValueCaseIn(n) == IF HasDefault(n.cases[1]) THEN n.cases[2] ELSE n.cases[1]
DefaultCaseIn(n) == IF HasDefault(n.cases[1]) THEN n.cases[1] ELSE n.cases[2]

\* Entry e is a conditional testing against value v, with bodies th and el.
IsConditional(e, v, th, el) ==
    /\ TextAt(e.from, <<"(", "if", "(", "result", "i64", ")", "(", "i64.eq">>)
    /\ \E x \in Returned :
          /\ x.node = e.node.expression /\ x.from = e.from + 8
          /\ TextAt(x.to, <<" ">>)
          /\ \E l \in Returned :
                /\ l.node = v /\ l.from = x.to + 1
                /\ TextAt(l.to, <<")", "(", "then">>)
                /\ \E t \in Returned :
                      /\ t.node = th /\ t.from = l.to + 3
                      /\ TextAt(t.to, <<")", "(", "else">>)
                      /\ \E f \in Returned :
                            /\ f.node = el /\ f.from = t.to + 3
                            /\ TextAt(f.to, <<")", ")">>)
                            /\ e.to = f.to + 2

\* C1: every two-case Switch with one default lowers to a conditional whose
\* test compares the scrutinee with the value case's value, whose then branch
\* is the value case's body and whose else branch is the default case's body.
C1_SwitchBranches ==
    \A e \in Returned :
        OneDefaultOneValue(e.node) =>
            IsConditional(e, ValueCaseIn(e.node).value[1],
                          ValueCaseIn(e.node).body, DefaultCaseIn(e.node).body)

(***************************************************************************)
(* C2  A Switch with no case, with more than two cases, or with no default *)
(* case fails: its handler never gets past its checks, and no text is      *)
(* returned for a tree in which such a Switch was visited.                 *)
(***************************************************************************)
BadSwitchShape(n) ==
    /\ n.kind = "Switch"
    /\ \/ Len(n.cases) = 0
       \/ Len(n.cases) > 2
       \/ \A i \in DOMAIN n.cases : ~HasDefault(n.cases[i])

NoDefaultCase(n) ==
    /\ n.kind = "Switch"
    /\ n.cases # <<>>
    /\ \A i \in DOMAIN n.cases : ~HasDefault(n.cases[i])

\* C2: a Switch with no case, more than two cases or no default case fails.
C2_BadSwitchFails ==
    \* a Switch without a default case does not pass the handler's checks
    /\ \A i \in DOMAIN stack : NoDefaultCase(stack[i].node) => stack[i].pc = "entry"
    \* no Switch of a bad shape is lowered to its end, and none yields text
    /\ \A e \in Returned : ~BadSwitchShape(e.node)

(***************************************************************************)
(* C3  A call of add64, sub64, mul64 or gt64 with two arguments lowers to  *)
(* (i64.add|i64.sub|i64.mul|i64.gt_u <argument 0> <argument 1>) and to no  *)
(* call instruction; a call of any other name lowers to (call $name        *)
(* <arguments, left to right>).                                            *)
(***************************************************************************)
ClaimedNative ==
    [add64 |-> "i64.add", sub64 |-> "i64.sub", mul64 |-> "i64.mul", gt64 |-> "i64.gt_u"]

IsClaimedBuiltin(name) == name \in {"add64", "sub64", "mul64", "gt64"}

\* C3: a two-argument builtin lowers to its native instruction around argument
\* 0 then argument 1, with no call; any other callee lowers to a call naming it
\* with the arguments in their order.
C3_CallLowering ==
    \A e \in Returned :
        e.node.kind = "FunctionCall" =>
            LET c == e.node
            IN  IF IsClaimedBuiltin(c.functionName)
                THEN Len(c.arguments) = 2 =>
                        /\ TextAt(e.from, <<"(", ClaimedNative[c.functionName]>>)
                        /\ LoweredInOrder(c.arguments, e.from + 2, e.to - 1)
                        /\ TextAt(e.to - 1, <<")">>)
                ELSE /\ TextAt(e.from, <<"(", "call", "$", c.functionName>>)
                     /\ ArgumentsInOrder(c.arguments, e.from + 4, e.to - 1)
                     /\ TextAt(e.to - 1, <<")">>)

\* A builtin with two different arguments was lowered.
C3_Witness ==
    /\ status = "done"
    /\ \E e \in Returned :
          /\ e.node.kind = "FunctionCall"
          /\ e.node.functionName = "gt64"
          /\ Len(e.node.arguments) = 2
          /\ e.node.arguments[1] # e.node.arguments[2]

(***************************************************************************)
(* C4  The text of a function with one return binding r holds exactly one  *)
(* result declaration and one local declaration of r, both after the       *)
(* parameters and before the body, and ends with one (return $r) before    *)
(* its closing parenthesis; the text of a function with no return binding  *)
(* holds no result declaration and no return.                              *)
(***************************************************************************)
\* Offsets of the function's text outside the functions nested in it.
OwnOffsets(e) ==
    { i \in (e.from + 1)..e.to :
        ~\E g \in Returned :
            /\ g.node.kind = "FunctionDefinition"
            /\ g # e
            /\ e.from < g.from /\ g.to < e.to
            /\ g.from < i /\ i <= g.to }

ResultDeclarations(e) == { i \in OwnOffsets(e) : TextAt(i - 1, <<"(", "result">>) }

LocalDeclarations(e, r) == { i \in OwnOffsets(e) : TextAt(i - 1, <<"(", "local", "$", r>>) }

Returns(e) == { i \in OwnOffsets(e) : TextAt(i - 1, <<"(", "return">>) }

\* Where the parameter declarations end and where the body starts.
ParametersEnd(e) == e.from + 4 + 6 * Len(e.node.arguments)

ResultAndLocal(r) == <<"(", "result", "i64", ")", "(", "local", "$", r, "i64", ")">>

\* C4 as stated: the declarations and returns are counted in the whole text of
\* the function, less the functions nested in it.
C4_Original ==
    \A e \in Returned :
        e.node.kind = "FunctionDefinition" =>
            IF Len(e.node.returns) = 1
            THEN LET r == e.node.returns[1].name
                 IN  /\ Cardinality(ResultDeclarations(e)) = 1
                     /\ Cardinality(LocalDeclarations(e, r)) = 1
                     /\ TextAt(ParametersEnd(e), ResultAndLocal(r))
                     /\ TextAt(e.to - 6, <<"(", "return", "$", r, ")", ")">>)
                     /\ Cardinality(Returns(e)) = 1
            ELSE /\ ResultDeclarations(e) = {}
                 /\ Returns(e) = {}

RECURSIVE ParameterText(_)
ParameterText(ps) ==
    IF ps = <<>> THEN <<>>
    ELSE <<"(", "param", "$", Head(ps).name, "i64", ")">> \o ParameterText(Tail(ps))

\* C4 as amended: the text of a function is its opening, its parameters, one
\* result declaration and one local of r if it has a return binding r, the
\* text of the statements of its body, one return of r if it has r, and its
\* closing parenthesis; the declarations and returns are counted outside the
\* text of the body's statements.
C4_FunctionText ==
    \A e \in Returned :
        e.node.kind = "FunctionDefinition" =>
            LET f == e.node
                one == Len(f.returns) = 1
                header == <<"(", "func", "$", f.name>> \o ParameterText(f.arguments)
                          \o (IF one THEN ResultAndLocal(f.returns[1].name) ELSE <<>>)
                trailer == (IF one THEN <<"(", "return", "$", f.returns[1].name, ")">> ELSE <<>>)
                           \o <<")">>
            IN  /\ Len(f.returns) <= 1
                /\ TextAt(e.from, header)
                /\ LoweredInOrder(f.body.statements, e.from + Len(header), e.to - Len(trailer))
                /\ TextAt(e.to - Len(trailer), trailer)

\* A function with parameters, a return binding and a Switch in its body.
C4_Witness ==
    /\ status = "done"
    /\ \E e \in Returned :
          /\ e.node.kind = "FunctionDefinition"
          /\ Len(e.node.returns) = 1
          /\ Len(e.node.arguments) = 2
          /\ \E i \in DOMAIN e.node.body.statements : e.node.body.statements[i].kind = "Switch"

(***************************************************************************)
(* C5  A tree holding, anywhere, a raw instruction, a functional           *)
(* instruction, a stack assignment, a label or a literal that is neither a *)
(* number nor a boolean yields no text.                                    *)
(***************************************************************************)
RECURSIVE HoldsUnsupported(_)
AnyHoldsUnsupported(ns) == \E i \in DOMAIN ns : HoldsUnsupported(ns[i])
HoldsUnsupported(n) ==
    CASE n.kind \in {"Instruction", "FunctionalInstruction", "StackAssignment", "Label"} -> TRUE
      [] n.kind = "Literal" -> n.lkind \notin {"Number", "Boolean"}
      [] n.kind = "Identifier" -> FALSE
      [] n.kind \in {"VariableDeclaration", "Assignment"} -> HoldsUnsupported(n.value)
      [] n.kind = "FunctionDefinition" -> HoldsUnsupported(n.body)
      [] n.kind = "FunctionCall" -> AnyHoldsUnsupported(n.arguments)
      [] n.kind = "Block" -> AnyHoldsUnsupported(n.statements)
      [] n.kind = "Switch" ->
            \/ HoldsUnsupported(n.expression)
            \/ \E i \in DOMAIN n.cases :
                  \/ AnyHoldsUnsupported(n.cases[i].value)
                  \/ HoldsUnsupported(n.cases[i].body)

\* C5: a tree holding an unsupported node anywhere yields no text.
C5_UnsupportedFails == HoldsUnsupported(input) => status # "done" /\ result = <<>>

(***************************************************************************)
(* C6  Entering the handler of a VariableDeclaration that does not bind    *)
(* exactly one name, of a FunctionDefinition with more than one return     *)
(* binding, or of a call of a builtin with other than two arguments ends   *)
(* the translation in failure, and a failed translation returns no text.   *)
(***************************************************************************)
ArityViolation(n) ==
    \/ n.kind = "VariableDeclaration" /\ Len(n.variables) # 1
    \/ n.kind = "FunctionDefinition" /\ Len(n.returns) > 1
    \/ n.kind = "FunctionCall" /\ IsClaimedBuiltin(n.functionName) /\ Len(n.arguments) # 2

\* C6: entering a handler on an arity violation fails the translation at
\* once; a failed translation has no text and takes no further step.
C6_ArityFatal ==
    /\ [][ (status = "running" /\ stack # <<>> /\ Top.pc = "entry" /\ ArityViolation(Top.node))
              => (status' = "failed" /\ result' = <<>>) ]_vars
    /\ [](status = "failed" => result = <<>> /\ ~ENABLED Next)

\* A builtin failed on its argument count after "(module" and its own
\* opening were appended.
C6_Witness ==
    /\ status = "failed"
    /\ TextAt(0, <<"(", "module">>)
    /\ TextAt(Len(Text) - 2, <<"(", "i64.mul">>)
    /\ \E i \in DOMAIN input.statements :
          /\ input.statements[i].kind = "FunctionCall"
          /\ Len(input.statements[i].arguments) = 3

(***************************************************************************)
(* C7  A Literal, VariableDeclaration binding, parameter or return binding *)
(* whose type name is outside {bool, u8, s8, u32, s32, u64, s64} makes the *)
(* translation fail with no text; every type that is emitted is i64.       *)
(***************************************************************************)
ClaimedTypes == {"bool", "u8", "s8", "u32", "s32", "u64", "s64"}

TypesOf(ts) == { ts[i].type : i \in DOMAIN ts }

AttachedTypes(n) ==
    CASE n.kind = "Literal" -> {n.type}
      [] n.kind = "VariableDeclaration" -> TypesOf(n.variables)
      [] n.kind = "FunctionDefinition" -> TypesOf(n.arguments) \cup TypesOf(n.returns)
      [] OTHER -> {}

\* The type tokens of the text that entry e's handler appended itself.
EmittedTypes(e) ==
    CASE e.node.kind = "Literal" -> {Text[e.from + 2]}
      [] e.node.kind = "VariableDeclaration" -> {Text[e.from + 5]}
      [] e.node.kind = "FunctionDefinition" ->
            { Text[e.from + 4 + 6 * i - 1] : i \in DOMAIN e.node.arguments }
            \cup (IF e.node.returns # <<>>
                  THEN { Text[ParametersEnd(e) + 3], Text[ParametersEnd(e) + 9] }
                  ELSE {})
      [] OTHER -> {}

\* C7: an attached type outside the supported set fails the translation at
\* the node's handler; handlers that return had supported types only and
\* emitted i64 for each.
C7_TypeMapping ==
    /\ [][ (status = "running" /\ stack # <<>> /\ Top.pc = "entry"
              /\ AttachedTypes(Top.node) \ ClaimedTypes # {})
              => (status' = "failed" /\ result' = <<>>) ]_vars
    /\ [](\A e \in Returned :
              /\ AttachedTypes(e.node) \subseteq ClaimedTypes
              /\ EmittedTypes(e) \subseteq {"i64"})

\* A function with a u64 and a bool parameter was lowered with i64 only.
C7_Witness ==
    /\ status = "done"
    /\ \E e \in Returned :
          /\ e.node.kind = "FunctionDefinition"
          /\ AttachedTypes(e.node) = {"u64", "bool"}
          /\ EmittedTypes(e) = {"i64"}

(***************************************************************************)
(* C8  The operand of the constant emitted for a number is the literal's   *)
(* text; the operand emitted for a boolean reads back as the literal's     *)
(* value, 1 as true and 0 as false.                                        *)
(***************************************************************************)
ReadBoolean(operand) ==
    IF operand = "1" THEN "true" ELSE IF operand = "0" THEN "false" ELSE "neither"

\* C8: the emitted constant reads back as the literal's value.
C8_LiteralRoundTrip ==
    \A e \in Returned :
        e.node.kind = "Literal" =>
            /\ e.to = e.from + 5
            /\ TextAt(e.from, <<"(", "i64", ".const">>)
            /\ TextAt(e.from + 4, <<")">>)
            /\ e.node.lkind \in {"Number", "Boolean"}
            /\ e.node.lkind = "Number" => Text[e.from + 4] = e.node.value
            /\ e.node.lkind = "Boolean" => ReadBoolean(Text[e.from + 4]) = e.node.value

\* The boolean false was emitted as 0.
C8_Witness ==
    /\ status = "done"
    /\ \E e \in Returned :
          /\ e.node.kind = "Literal" /\ e.node.lkind = "Boolean" /\ e.node.value = "false"
          /\ Text[e.from + 4] = "0"

(***************************************************************************)
(* C9  The indentation of the writer is never negative, every handler that *)
(* returns leaves it as it found it, and it is 0 once the module is        *)
(* closed.                                                                 *)
(***************************************************************************)
\* C9: indentation never negative, unchanged across every handler that
\* returns, 0 after the module is closed.
C9_IndentationBalanced ==
    /\ output.low >= 0
    /\ \A i \in DOMAIN output.lines : output.lines[i].indentation >= 0
    /\ \A e \in Returned : e.dout = e.din
    /\ status \in {"constructed", "done"} => Depth(output) = 0

\* A Switch entered at depth 1 returned, and text was written at depth 4.
C9_Witness ==
    /\ status = "done"
    /\ \E e \in Returned : e.node.kind = "Switch" /\ e.din = 1
    /\ \E i \in DOMAIN output.lines : output.lines[i].indentation = 4

(***************************************************************************)
(* C10  The returned text starts by opening the module, ends with the      *)
(* parenthesis closing it, and its parentheses nest: no prefix closes more *)
(* than it opened, and only the whole text closes the module.              *)
(***************************************************************************)
Blank == {"\n", "   ", " "}

IsVisible(tok) == tok \notin Blank

\* Tokens i.. of t keep the nesting depth, d before them, positive up to the
\* last token, which closes it to 0.
RECURSIVE Nests(_, _, _)
Nests(t, i, d) ==
    IF i > Len(t) THEN d = 0
    ELSE LET after == IF t[i] = "(" THEN d + 1 ELSE IF t[i] = ")" THEN d - 1 ELSE d
         IN  /\ after >= 0
             /\ after = 0 => i = Len(t)
             /\ Nests(t, i + 1, after)

\* C10: the returned text is one well-nested group opened by "(module".
C10_WellNested ==
    status = "done" =>
        /\ Len(result) = 1
        /\ LET t == SelectSeq(result[1], IsVisible)
           IN  /\ Len(t) >= 3
               /\ SubSeq(t, 1, 2) = <<"(", "module">>
               /\ t[Len(t)] = ")"
               /\ Nests(t, 1, 0)

\* A text of more than 40 visible tokens was returned.
C10_Witness ==
    /\ status = "done"
    /\ Len(SelectSeq(result[1], IsVisible)) > 40
====
